---- MODULE Spec2Model ----
(***************************************************************************)
(* Notes front-end: the data access layer of services/api.ts (the          *)
(* localStorage-backed store of createLocalMock and the fetch client of    *)
(* createBackendClient that falls back to it) and the reactive store of    *)
(* state/store.ts.                                                         *)
(*                                                                         *)
(* Representation.  A JavaScript string is the sequence of its characters, *)
(* so that toLowerCase and includes are computed and not assumed.  A value *)
(* that may be undefined (an optional field, an optional argument) is a    *)
(* sequence of length 0 (undefined) or 1.  An ISO timestamp produced by    *)
(* new Date().toISOString() is the millisecond count it denotes: the code  *)
(* only ever compares timestamps after parsing them back with new Date().  *)
(***************************************************************************)
EXTENDS Integers, Sequences, FiniteSets, TLC

VARIABLES storage, clock, nops, last, pending, base,
          _notes, _query, listeners, handles, nsubs, tasks, round, draining

apiVars == <<storage, clock, nops, last, pending, base>>

storeVars == <<_notes, _query, listeners, handles, nsubs, tasks, round, draining>>

vars == <<storage, clock, nops, last, pending, base,
          _notes, _query, listeners, handles, nsubs, tasks, round, draining>>

(* ------------------------------ bounds --------------------------------- *)
MaxOps == 2
MaxClock == 1
MaxPending == 1

(* ------------------------------ strings -------------------------------- *)
UpperChars == <<"A","B","C","D","E","F","G","H","I","J","K","L","M",
                "N","O","P","Q","R","S","T","U","V","W","X","Y","Z">>
LowerChars == <<"a","b","c","d","e","f","g","h","i","j","k","l","m",
                "n","o","p","q","r","s","t","u","v","w","x","y","z">>

toLowerCaseChar(c) ==
  IF \E i \in 1..Len(UpperChars) : UpperChars[i] = c
  THEN LowerChars[CHOOSE i \in 1..Len(UpperChars) : UpperChars[i] = c]
  ELSE c

toLowerCase(s) == [i \in 1..Len(s) |-> toLowerCaseChar(s[i])]

includes(s, q) ==
  \E i \in 0..(Len(s) - Len(q)) : SubSeq(s, i + 1, i + Len(q)) = q

Untitled == <<"U","n","t","i","t","l","e","d">>

WelcomeTitle == <<"W","e","l","c","o","m","e"," ","t","o"," ","N","o","t","e","s">>
WelcomeContent ==
  <<"T","h","i","s"," ","i","s"," ","a"," ","d","e","m","o"," ","n","o","t","e","."," ",
    "U","s","e"," ","t","h","e"," ","+"," ","N","e","w"," ","N","o","t","e"," ",
    "b","u","t","t","o","n"," ","t","o"," ","c","r","e","a","t","e"," ","y","o","u","r"," ",
    "o","w","n","."," ","E","d","i","t",","," ","s","e","a","r","c","h",","," ",
    "a","n","d"," ","d","e","l","e","t","e"," ","a","s"," ","n","e","e","d","e","d",".">>
WelcomeTags == << <<"w","e","l","c","o","m","e">>, <<"d","e","m","o">> >>

KeyboardTitle == <<"K","e","y","b","o","a","r","d"," ","T","i","p","s">>
KeyboardContent ==
  <<"U","s","e"," ","C","t","r","l","/","C","m","d","+","K"," ","t","o"," ",
    "f","o","c","u","s"," ","s","e","a","r","c","h","."," ",
    "U","s","e"," ","C","t","r","l","/","C","m","d","+","E","n","t","e","r"," ",
    "t","o"," ","s","a","v","e"," ","i","n"," ","t","h","e"," ","e","d","i","t","o","r",".">>
KeyboardTags == << <<"t","i","p","s">> >>

(* ------------------------------ inputs --------------------------------- *)
(* uid() draws 122 random bits; two draws may coincide.                    *)
UidPool == {"u1", "u2"}

NoteIDs == UidPool \cup {"nonexistent-id"}

StrEmpty == <<>>
StrX == <<"x">>
StrTIPS == <<"T","I","P","S">>
StrTips == <<"t","i","p","s">>
StrMyNote == <<"M","y"," ","N","o","t","e">>
TagWork == <<"W","o","r","k">>
StrWork == <<"w","o","r","k">>

(* CreateNoteInput: title, content and tags are all required.              *)
CreateInputs ==
  { [title |-> <<StrEmpty>>,  content |-> <<StrEmpty>>, tags |-> << <<>> >>],
    [title |-> <<StrMyNote>>, content |-> <<StrTIPS>>,  tags |-> << <<TagWork>> >>] }

(* UpdateNoteInput: any subset of title, content and tags.                 *)
UpdateInputs ==
  { [title |-> <<>>,          content |-> <<StrX>>,     tags |-> <<>>],
    [title |-> <<StrMyNote>>, content |-> <<>>,         tags |-> << <<TagWork>> >>],
    [title |-> <<StrEmpty>>,  content |-> <<StrTips>>,  tags |-> << <<>> >>] }

NoInput == [title |-> <<>>, content |-> <<>>, tags |-> <<>>]

(* list(query?): undefined, "" and some search words.                      *)
Queries == { <<>>, <<StrEmpty>>, <<StrTIPS>>, <<StrWork>> }

(* ------------------------------ notes ---------------------------------- *)
Note(id, title, content, tags, createdAt, updatedAt) ==
  [id |-> id, title |-> title, content |-> content, tags |-> tags,
   createdAt |-> createdAt, updatedAt |-> updatedAt]

(* JSON.stringify of a Note[]: each note becomes its members in key order. *)
JSON_stringify(notes) ==
  [i \in 1..Len(notes) |->
     <<notes[i].id, notes[i].title, notes[i].content, notes[i].tags,
       notes[i].createdAt, notes[i].updatedAt>>]

(* JSON.parse of a text that JSON_stringify wrote.                         *)
JSON_parse(text) ==
  [i \in 1..Len(text) |->
     Note(text[i][1], text[i][2], text[i][3], text[i][4], text[i][5], text[i][6])]

(* The value under STORAGE_KEY: "missing" (getItem gives null, or the      *)
(* empty string: both are falsy), a text JSON.parse rejects, a JSON text   *)
(* that is not an array, or a JSON array of notes.                         *)
STORAGE_KEY == "notes_app_data_v1"

StorageKinds == {"missing", "malformed", "nonarray", "array"}

NoStorage == [kind |-> "missing", text |-> <<>>]

(* ------------------------- createLocalMock ----------------------------- *)
(* An environment e gives the clock readings e.t and the uid() draws e.u   *)
(* in the order in which the code of one operation consumes them.          *)

write(notes) == [kind |-> "array", text |-> JSON_stringify(notes)]

(* seed() that stores an empty collection.                                 *)
seed_empty(now, id1, id2) == [all |-> <<>>, st |-> write(<<>>)]

seed(now, id1, id2) ==
  LET data == << Note(id1, WelcomeTitle, WelcomeContent, WelcomeTags, now, now),
                 Note(id2, KeyboardTitle, KeyboardContent, KeyboardTags, now, now) >>
  IN  [all |-> data, st |-> write(data)]

(* read() whose catch gives an empty collection instead of a seed.         *)
read_emptyOnError(st, now, id1, id2) ==
  IF st.kind = "missing" THEN seed(now, id1, id2)
  ELSE IF st.kind = "malformed" THEN [all |-> <<>>, st |-> st]
  ELSE IF st.kind = "array" THEN [all |-> JSON_parse(st.text), st |-> st]
  ELSE seed(now, id1, id2)

(* read(): the parsed collection, or a fresh seed (which is written).      *)
read(st, now, id1, id2) ==
  IF st.kind = "missing" THEN seed(now, id1, id2)
  ELSE IF st.kind = "malformed" THEN seed(now, id1, id2)
  ELSE IF st.kind = "array" THEN [all |-> JSON_parse(st.text), st |-> st]
  ELSE seed(now, id1, id2)

(* The comparator with its operands swapped: earliest updatedAt first.     *)
RECURSIVE insertSorted_ascending(_, _)
insertSorted_ascending(sorted, x) ==
  IF sorted = <<>> THEN <<x>>
  ELSE IF Head(sorted).updatedAt - x.updatedAt > 0
       THEN <<x>> \o sorted
       ELSE <<Head(sorted)>> \o insertSorted_ascending(Tail(sorted), x)

(* Array.prototype.sort with (a, b) => +new Date(b.updatedAt) -            *)
(* +new Date(a.updatedAt): a stable sort, latest updatedAt first.          *)
RECURSIVE insertSorted(_, _)
insertSorted(sorted, x) ==
  IF sorted = <<>> THEN <<x>>
  ELSE IF x.updatedAt - Head(sorted).updatedAt > 0
       THEN <<x>> \o sorted
       ELSE <<Head(sorted)>> \o insertSorted(Tail(sorted), x)

RECURSIVE sortByUpdatedAt(_)
sortByUpdatedAt(notes) ==
  IF notes = <<>> THEN <<>>
  ELSE insertSorted(sortByUpdatedAt(SubSeq(notes, 1, Len(notes) - 1)), notes[Len(notes)])

matches(n, q) ==
  \/ includes(toLowerCase(n.title), q)
  \/ includes(toLowerCase(n.content), q)
  \/ \E i \in 1..Len(n.tags) : includes(toLowerCase(n.tags[i]), q)

(* !query: undefined or the empty string.                                  *)
falsyQuery(query) == query = <<>> \/ query[1] = <<>>

findIndex(all, id) ==
  IF \E i \in 1..Len(all) : all[i].id = id
  THEN CHOOSE i \in 1..Len(all) : all[i].id = id /\ \A j \in 1..(i - 1) : all[j].id # id
  ELSE 0

Result(kind, val) == [kind |-> kind, val |-> val]

mock_list(st, query, e) ==
  LET r   == read(st, e.t[1], e.u[1], e.u[2])
      all == sortByUpdatedAt(r.all)
      q   == toLowerCase(query[1])
      hit(n) == matches(n, q)
  IN  [res |-> Result("list", IF falsyQuery(query) THEN all ELSE SelectSeq(all, hit)),
       st |-> r.st, all |-> r.all]

mock_get(st, id, e) ==
  LET r   == read(st, e.t[1], e.u[1], e.u[2])
      idx == findIndex(r.all, id)
  IN  [res |-> IF idx = 0 THEN Result("null", <<>>) ELSE Result("note", <<r.all[idx]>>),
       st |-> r.st, all |-> r.all]

(* x || dflt for a string or an array: only the empty string is falsy.     *)
orDefault(x, dflt) == IF x = <<>> THEN dflt ELSE x

(* create that reads the clock again for updatedAt and keeps the title as  *)
(* given.                                                                  *)
mock_create_twoClocks(st, input, e) ==
  LET newNote == Note(e.u[1], input.title[1], orDefault(input.content[1], <<>>),
                      input.tags[1], e.t[1], e.t[2])
      r       == read(st, e.t[2], e.u[2], e.u[3])
  IN  [res |-> Result("note", <<newNote>>),
       st |-> write(<<newNote>> \o r.all), all |-> r.all]

mock_create(st, input, e) ==
  LET now     == e.t[1]
      newNote == Note(e.u[1],
                      orDefault(input.title[1], Untitled),
                      orDefault(input.content[1], <<>>),
                      input.tags[1],
                      now, now)
      r       == read(st, e.t[2], e.u[2], e.u[3])
  IN  [res |-> Result("note", <<newNote>>),
       st |-> write(<<newNote>> \o r.all), all |-> r.all]

(* merge that leaves updatedAt as it was.                                  *)
merge_staleUpdatedAt(old, input, now) ==
  Note(old.id,
       IF input.title = <<>> THEN old.title ELSE input.title[1],
       IF input.content = <<>> THEN old.content ELSE input.content[1],
       IF input.tags = <<>> THEN old.tags ELSE input.tags[1],
       old.createdAt,
       old.updatedAt)

(* merge that replaces the note by the input: omitted fields are emptied.  *)
merge_replaceAll(old, input, now) ==
  Note(old.id,
       IF input.title = <<>> THEN <<>> ELSE input.title[1],
       IF input.content = <<>> THEN <<>> ELSE input.content[1],
       IF input.tags = <<>> THEN <<>> ELSE input.tags[1],
       old.createdAt,
       now)

(* {...all[idx], ...input, updatedAt: now}                                 *)
merge(old, input, now) ==
  Note(old.id,
       IF input.title = <<>> THEN old.title ELSE input.title[1],
       IF input.content = <<>> THEN old.content ELSE input.content[1],
       IF input.tags = <<>> THEN old.tags ELSE input.tags[1],
       old.createdAt,
       now)

(* update that writes a new note when the id is not found.                 *)
mock_update_upsert(st, id, input, e) ==
  LET r   == read(st, e.t[1], e.u[1], e.u[2])
      idx == findIndex(r.all, id)
      new == merge(Note(id, <<>>, <<>>, <<>>, e.t[2], e.t[2]), input, e.t[2])
  IN  IF idx = 0
      THEN [res |-> Result("note", <<new>>), st |-> write(r.all \o <<new>>), all |-> r.all]
      ELSE [res |-> Result("note", <<merge(r.all[idx], input, e.t[2])>>),
            st |-> write([r.all EXCEPT ![idx] = merge(r.all[idx], input, e.t[2])]),
            all |-> r.all]

mock_update(st, id, input, e) ==
  LET r   == read(st, e.t[1], e.u[1], e.u[2])
      idx == findIndex(r.all, id)
  IN  IF idx = 0
      THEN [res |-> Result("NotFound", <<>>), st |-> r.st, all |-> r.all]
      ELSE LET updated == merge(r.all[idx], input, e.t[2])
           IN  [res |-> Result("note", <<updated>>),
                st |-> write([r.all EXCEPT ![idx] = updated]), all |-> r.all]

(* remove that throws when the id is not found.                            *)
mock_remove_strict(st, id, e) ==
  LET r    == read(st, e.t[1], e.u[1], e.u[2])
      keep(n) == n.id # id
  IN  IF findIndex(r.all, id) = 0
      THEN [res |-> Result("NotFound", <<>>), st |-> r.st, all |-> r.all]
      ELSE [res |-> Result("void", <<>>), st |-> write(SelectSeq(r.all, keep)),
            all |-> r.all]

mock_remove(st, id, e) ==
  LET r    == read(st, e.t[1], e.u[1], e.u[2])
      keep(n) == n.id # id
  IN  [res |-> Result("void", <<>>), st |-> write(SelectSeq(r.all, keep)), all |-> r.all]

(* ----------------------- createBackendClient --------------------------- *)
(* What await fetch(...) gives: a rejection (network failure) or a         *)
(* Response with a status and a body; res.json() rejects when the body is  *)
(* not JSON.  The service itself is not part of this repository: its       *)
(* answers are arbitrary.                                                  *)
ServerNote == Note("srv", StrMyNote, StrX, <<>>, 0, 0)

NoBody == [valid |-> FALSE, val |-> <<>>]

NetOutcomes ==
  { [kind |-> "reject",   status |-> 0,   body |-> NoBody],
    [kind |-> "response", status |-> 500, body |-> NoBody],
    [kind |-> "response", status |-> 404, body |-> [valid |-> TRUE, val |-> <<>>]],
    [kind |-> "response", status |-> 200, body |-> [valid |-> TRUE, val |-> <<ServerNote>>]],
    [kind |-> "response", status |-> 200, body |-> NoBody],
    [kind |-> "response", status |-> 204, body |-> NoBody] }

NoNet == [kind |-> "none", status |-> 0, body |-> NoBody]

(* Response.ok: the status is in the range 200-299.                        *)
ok(res) == res.status >= 200 /\ res.status <= 299

NullResponse == [kind |-> "null", status |-> 0, body |-> NoBody]

(* safeFetch without the res.ok test: only a rejection gives null.         *)
safeFetch_rejectOnly(net) ==
  IF net.kind = "reject" THEN NullResponse ELSE net

(* safeFetch: null when fetch rejects or the response is not ok.           *)
safeFetch(net) ==
  IF net.kind = "reject" THEN NullResponse
  ELSE IF ~ok(net) THEN NullResponse
  ELSE net

(* (await res.json()) as T: the body as it came, or a rejection.           *)
json(res, kind) ==
  IF res.body.valid THEN Result(kind, res.body.val) ELSE Result("SyntaxError", <<>>)

Remote(res, st) == [res |-> res, st |-> st, all |-> <<>>]

client_list(st, query, net, e) ==
  LET res == safeFetch(net)
  IN  IF res = NullResponse THEN mock_list(st, query, e)
      ELSE Remote(json(res, "list"), st)

client_get(st, id, net, e) ==
  LET res == safeFetch(net)
  IN  IF res = NullResponse THEN mock_get(st, id, e)
      ELSE IF res.status = 404 THEN Remote(Result("null", <<>>), st)
      ELSE Remote(json(res, "note"), st)

client_create(st, input, net, e) ==
  LET res == safeFetch(net)
  IN  IF res = NullResponse THEN mock_create(st, input, e)
      ELSE Remote(json(res, "note"), st)

client_update(st, id, input, net, e) ==
  LET res == safeFetch(net)
  IN  IF res = NullResponse THEN mock_update(st, id, input, e)
      ELSE Remote(json(res, "note"), st)

client_remove(st, id, net, e) ==
  LET res == safeFetch(net)
  IN  IF res = NullResponse THEN mock_remove(st, id, e)
      ELSE Remote(Result("void", <<>>), st)

(* ------------------------- the data access layer ----------------------- *)
(* getNotesAPI: the mock alone when no base address is configured, else    *)
(* the backend client wrapping a mock.  The choice is made once.           *)
Bases == {"", "http://notes"}

getNotesAPI(b) == IF b = "" THEN "mock" ELSE "client"

Min(a, b) == IF a < b THEN a ELSE b

(* The environments one operation can meet in storage state st: the clock  *)
(* does not go back, and may or may not advance between two readings; the  *)
(* readings and draws the operation does not make are fixed.               *)
Envs(st, op) ==
  LET seeds == st.kind # "array"
      T1 == IF seeds \/ op \in {"create", "update"}
            THEN clock..Min(clock + 1, MaxClock) ELSE {clock}
      T2(t1) == IF seeds /\ op \in {"create", "update"}
                THEN t1..Min(t1 + 1, MaxClock) ELSE {t1}
      U1 == IF seeds \/ op = "create" THEN UidPool ELSE {"u1"}
      U2 == IF seeds THEN UidPool ELSE {"u1"}
      U3 == IF seeds /\ op = "create" THEN UidPool ELSE {"u1"}
  IN  { [t |-> <<t1, t2>>, u |-> <<u1, u2, u3>>] :
          t1 \in T1, t2 \in UNION {T2(x) : x \in T1}, u1 \in U1, u2 \in U2, u3 \in U3 }

Event(layer, op, id, input, query, net, e, r) ==
  [layer |-> layer, op |-> op, id |-> id, input |-> input, query |-> query,
   net |-> net, e |-> e, pre |-> storage, all |-> r.all, res |-> r.res]

NoEnv == [t |-> <<0, 0>>, u |-> <<"u1", "u1", "u1">>]

NoEvent ==
  [layer |-> "none", op |-> "none", id |-> "", input |-> NoInput, query |-> <<>>,
   net |-> NoNet, e |-> NoEnv, pre |-> NoStorage, all |-> <<>>,
   res |-> Result("void", <<>>)]

(* One completed call: its effect on storage, and the record of it.        *)
Complete(layer, op, id, input, query, net, e, r) ==
  /\ e.t[1] <= e.t[2]
  /\ storage' = r.st
  /\ clock' = e.t[2]
  /\ last' = Event(layer, op, id, input, query, net, e, r)

(* The store of state/store.ts as its constructor leaves it.               *)
NoRound ==
  [phase |-> "idle", arr |-> <<>>, i |-> 0, aliased |-> FALSE, start |-> <<>>,
   log |-> <<>>, grew |-> FALSE, q |-> <<>>, listed |-> <<>>, pre |-> NoStorage,
   e |-> NoEnv, late |-> FALSE, made |-> <<>>, nested |-> <<>>, gone |-> {}]

InitStore ==
  /\ _notes = <<>>
  /\ _query = <<>>
  /\ listeners = <<>>
  /\ handles = {}
  /\ nsubs = 0
  /\ tasks = <<>>
  /\ round = NoRound
  /\ draining = FALSE

Init ==
  /\ storage = NoStorage
  /\ clock = 0
  /\ nops = 0
  /\ last = NoEvent
  /\ pending = {}
  /\ base \in Bases
  /\ InitStore

InitMock == Init /\ base = ""

InitClient == Init /\ base # ""

(* The mock's methods have no await in their bodies: a call runs to its    *)
(* end before anything else does.                                          *)
MockCall(op) ==
  /\ getNotesAPI(base) = "mock"
  /\ last = NoEvent
  /\ nops < MaxOps
  /\ nops' = nops + 1
  /\ UNCHANGED <<pending, base>>
  /\ UNCHANGED storeVars

MockList ==
  /\ MockCall("list")
  /\ \E query \in Queries, e \in Envs(storage, "list") :
       Complete("mock", "list", "", NoInput, query, NoNet, e, mock_list(storage, query, e))

MockGet ==
  /\ MockCall("get")
  /\ \E id \in NoteIDs, e \in Envs(storage, "get") :
       Complete("mock", "get", id, NoInput, <<>>, NoNet, e, mock_get(storage, id, e))

MockCreate ==
  /\ MockCall("create")
  /\ \E input \in CreateInputs, e \in Envs(storage, "create") :
       Complete("mock", "create", "", input, <<>>, NoNet, e, mock_create(storage, input, e))

MockUpdate ==
  /\ MockCall("update")
  /\ \E id \in NoteIDs, input \in UpdateInputs, e \in Envs(storage, "update") :
       Complete("mock", "update", id, input, <<>>, NoNet, e,
                mock_update(storage, id, input, e))

MockRemove ==
  /\ MockCall("remove")
  /\ \E id \in NoteIDs, e \in Envs(storage, "remove") :
       Complete("mock", "remove", id, NoInput, <<>>, NoNet, e, mock_remove(storage, id, e))

(* A client call first awaits fetch: the request is in flight until the    *)
(* network answers, and other calls run meanwhile.                         *)
Call(op, id, input, query) == [op |-> op, id |-> id, input |-> input, query |-> query]

ClientCalls ==
  {Call("list", "", NoInput, q) : q \in Queries}
    \cup {Call("get", id, NoInput, <<>>) : id \in NoteIDs}
    \cup {Call("create", "", input, <<>>) : input \in CreateInputs}
    \cup {Call("update", id, input, <<>>) : id \in NoteIDs, input \in UpdateInputs}
    \cup {Call("remove", id, NoInput, <<>>) : id \in NoteIDs}

ClientCall ==
  /\ getNotesAPI(base) = "client"
  /\ last = NoEvent
  /\ nops < MaxOps
  /\ Cardinality(pending) < MaxPending
  /\ \E c \in ClientCalls : pending' = pending \cup {c}
  /\ nops' = nops + 1
  /\ UNCHANGED <<storage, clock, last, base>>
  /\ UNCHANGED storeVars

client(c, net, e) ==
  CASE c.op = "list"   -> client_list(storage, c.query, net, e)
    [] c.op = "get"    -> client_get(storage, c.id, net, e)
    [] c.op = "create" -> client_create(storage, c.input, net, e)
    [] c.op = "update" -> client_update(storage, c.id, c.input, net, e)
    [] c.op = "remove" -> client_remove(storage, c.id, net, e)

(* The environment of a call that did not reach the mock is not read.      *)
ClientEnvs(c, net) ==
  IF safeFetch(net) = NullResponse THEN Envs(storage, c.op) ELSE {[NoEnv EXCEPT !.t = <<clock, clock>>]}

FetchSettles ==
  /\ last = NoEvent
  /\ \E c \in pending, net \in NetOutcomes :
       /\ pending' = pending \ {c}
       /\ \E e \in ClientEnvs(c, net) :
            Complete("client", c.op, c.id, c.input, c.query, net, e, client(c, net, e))
  /\ UNCHANGED <<nops, base>>
  /\ UNCHANGED storeVars

(* Whatever else touches localStorage: the entry is cleared or replaced by *)
(* a value the store did not write.                                        *)
Corrupt ==
  /\ last = NoEvent
  /\ nops < MaxOps
  /\ nops' = nops + 1
  /\ \E k \in StorageKinds \ {"array"} : storage' = [kind |-> k, text |-> <<>>]
  /\ UNCHANGED <<clock, last, pending, base>>
  /\ UNCHANGED storeVars

(* The caller takes the settled promise's outcome: `last` records a call   *)
(* only in the state in which it has just completed.                       *)
Return ==
  /\ last # NoEvent
  /\ last' = NoEvent
  /\ UNCHANGED <<storage, clock, nops, pending, base>>
  /\ UNCHANGED storeVars

(* The Local Store used directly (no base address configured).             *)
MockNext ==
  \/ MockList \/ MockGet \/ MockCreate \/ MockUpdate \/ MockRemove
  \/ Corrupt
  \/ Return

SpecMock == InitMock /\ [][MockNext]_vars

(* The Remote Client over its Local Store.                                 *)
ClientNext ==
  \/ ClientCall \/ FetchSettles
  \/ Corrupt
  \/ Return

SpecClient == InitClient /\ [][ClientNext]_vars

(* ------------------------------ NotesStore ----------------------------- *)
(* The store runs single-threaded.  A call is made by an event handler of  *)
(* the page, which runs only when no continuation is waiting, or by the    *)
(* listener that emit() has just invoked.  The continuation of an await on *)
(* a promise of the Local Store runs later, in the order of the awaits; a  *)
(* request of the Remote Client is in flight until the network answers.    *)
MaxListeners == 2
MaxStoreOps == 1
MaxRemoteOps == 2
MaxNested == 1

(* What the page passes to the store.                                      *)
StoreQueries == {StrEmpty, StrTIPS}

StoreCreateInputs ==
  { [title |-> <<StrMyNote>>, content |-> <<StrTIPS>>, tags |-> << <<TagWork>> >>] }

StoreUpdateInputs == { [title |-> <<>>, content |-> <<StrX>>, tags |-> <<>>] }

StoreNoteIDs == {"u1", "nonexistent-id"}

StoreBudget == IF getNotesAPI(base) = "mock" THEN MaxStoreOps ELSE MaxRemoteOps

ByHandler == round.phase = "idle" /\ ~draining

ByListener == round.phase = "emitting" /\ round.i >= 1

StoreCaller == ByHandler \/ ByListener

(* filter that keeps every element: the handle removes nothing.            *)
without_nothing(ls, fn) == ls

(* this.listeners.filter((l) => l !== fn)                                  *)
without(ls, fn) ==
  LET other(l) == l # fn
  IN  SelectSeq(ls, other)

(* subscribe(fn): this.listeners.push(fn).  Each subscribe call passes a   *)
(* function of its own: the n-th call passes listener n.  A push made      *)
(* while emit() iterates this very array is seen by the iteration.         *)
StoreSubscribe ==
  /\ StoreCaller
  /\ nsubs < MaxListeners
  /\ nsubs' = nsubs + 1
  /\ LET fn == nsubs + 1
     IN  /\ listeners' = Append(listeners, fn)
         /\ handles' = handles \cup {fn}
         /\ round' = IF round.phase = "emitting" /\ round.aliased
                     THEN [round EXCEPT !.arr = Append(@, fn), !.grew = TRUE]
                     ELSE round
  /\ UNCHANGED <<_notes, _query, tasks, draining>>
  /\ UNCHANGED apiVars

(* The handle subscribe(fn) returned (handles holds the listeners whose    *)
(* handle has not been called yet): this.listeners becomes a new array     *)
(* without fn; an iteration in progress keeps the old one.  round.gone     *)
(* records who was unsubscribed during the round, and whether the round    *)
(* had invoked it by then.                                                 *)
StoreUnsubscribe ==
  /\ StoreCaller
  /\ \E fn \in handles :
       /\ listeners' = without(listeners, fn)
       /\ handles' = handles \ {fn}
       /\ round' = IF round.phase = "emitting"
                   THEN [round EXCEPT !.aliased = FALSE,
                                      !.gone = @ \cup
                                        {[fn |-> fn,
                                          invoked |-> \E k \in 1..Len(round.log) :
                                                         round.log[k] = fn]}]
                   ELSE round
  /\ UNCHANGED <<_notes, _query, nsubs, tasks, draining>>
  /\ UNCHANGED apiVars

(* this.api.list(this._query) on the Local Store.                          *)
refresh_list(st, q, e) == mock_list(st, <<q>>, e)

(* The same call made directly on the Local Store.                         *)
mock(c, e) ==
  CASE c.op = "list"   -> mock_list(storage, c.query, e)
    [] c.op = "get"    -> mock_get(storage, c.id, e)
    [] c.op = "create" -> mock_create(storage, c.input, e)
    [] c.op = "update" -> mock_update(storage, c.id, c.input, e)
    [] c.op = "remove" -> mock_remove(storage, c.id, e)

(* A request of the store that is in flight: n orders the requests in      *)
(* flight by the time of their issue, late tells that a list call issued   *)
(* after this one has resolved already, made is the note the create before *)
(* this refresh returned.                                                  *)
Request(c, made) ==
  LET ns == {d.n : d \in pending}
      n  == IF ns = {} THEN 1 ELSE 1 + CHOOSE m \in ns : \A k \in ns : k <= m
  IN  [op |-> c.op, id |-> c.id, input |-> c.input, query |-> c.query,
       n |-> n, late |-> FALSE, made |-> made]

(* The continuation of refresh(): what its list call gave (a rejected list *)
(* call ends refresh at the await).                                        *)
RefreshTask(q, res, pre, e, late, made) ==
  [k |-> "refresh", ok |-> res.kind = "list", q |-> q, listed |-> res.val,
   pre |-> pre, e |-> e, late |-> late, made |-> made]

(* The continuation of create, update or remove: whether the backend call  *)
(* succeeded.                                                              *)
MutationTask(op, res) ==
  [k |-> "mutation", ok |-> res.kind \notin {"NotFound", "SyntaxError"}, q |-> <<>>,
   listed |-> <<>>, pre |-> NoStorage, e |-> NoEnv, late |-> FALSE,
   made |-> IF op = "create" /\ res.kind = "note" THEN res.val ELSE <<>>]

(* refresh() up to its await: the list call is made, with the query as it  *)
(* is now; the assignment and emit() wait in the continuation.             *)
CallRefresh(q, rest, made) ==
  IF getNotesAPI(base) = "mock"
  THEN /\ \E e \in Envs(storage, "list") :
            LET r == refresh_list(storage, q, e)
            IN  /\ e.t[1] <= e.t[2]
                /\ storage' = r.st
                /\ clock' = e.t[2]
                /\ tasks' = Append(rest, RefreshTask(q, r.res, storage, e, FALSE, made))
       /\ UNCHANGED pending
  ELSE /\ pending' = pending \cup {Request(Call("list", "", NoInput, <<q>>), made)}
       /\ tasks' = rest
       /\ UNCHANGED <<storage, clock>>

StoreCall ==
  /\ StoreCaller
  /\ nops < StoreBudget
  /\ nops' = nops + 1
  /\ UNCHANGED <<last, base>>
  /\ UNCHANGED <<_notes, listeners, handles, nsubs, round, draining>>

StoreRefresh ==
  /\ StoreCall
  /\ CallRefresh(_query, tasks, <<>>)
  /\ UNCHANGED _query

StoreSetQuery ==
  /\ StoreCall
  /\ \E q \in StoreQueries :
       /\ _query' = q
       /\ CallRefresh(q, tasks, <<>>)

(* The listener that emit() has just invoked calls refresh() or            *)
(* setQuery(q): as often as it likes, while fewer than MaxNested list      *)
(* calls are outstanding.  round.nested records which listener called.     *)
NestedCall ==
  /\ ByListener
  /\ Len(tasks) + Cardinality(pending) < MaxNested
  /\ round' = [round EXCEPT !.nested = Append(@, round.i)]
  /\ UNCHANGED <<nops, last, base>>
  /\ UNCHANGED <<_notes, listeners, handles, nsubs, draining>>

ListenerRefresh ==
  /\ NestedCall
  /\ CallRefresh(_query, tasks, <<>>)
  /\ UNCHANGED _query

ListenerSetQuery ==
  /\ NestedCall
  /\ \E q \in StoreQueries :
       /\ _query' = q
       /\ CallRefresh(q, tasks, <<>>)

(* create, update, remove up to their first await: the Local Store has     *)
(* done its work when the call returns.                                    *)
CallMutation(c) ==
  /\ IF getNotesAPI(base) = "mock"
     THEN /\ \E e \in Envs(storage, c.op) :
               LET r == mock(c, e)
               IN  /\ e.t[1] <= e.t[2]
                   /\ storage' = r.st
                   /\ clock' = e.t[2]
                   /\ tasks' = Append(tasks, MutationTask(c.op, r.res))
          /\ UNCHANGED pending
     ELSE /\ pending' = pending \cup {Request(c, <<>>)}
          /\ UNCHANGED <<storage, clock, tasks>>
  /\ UNCHANGED _query

StoreCreate ==
  /\ StoreCall
  /\ \E input \in StoreCreateInputs : CallMutation(Call("create", "", input, <<>>))

StoreUpdate ==
  /\ StoreCall
  /\ \E id \in StoreNoteIDs, input \in StoreUpdateInputs :
       CallMutation(Call("update", id, input, <<>>))

StoreRemove ==
  /\ StoreCall
  /\ \E id \in StoreNoteIDs \cap UidPool : CallMutation(Call("remove", id, NoInput, <<>>))

(* The network answers a request of the store (this happens when nothing   *)
(* else runs): the Remote Client's method finishes and the store's method  *)
(* that awaits it is resumed next.                                         *)
StoreFetchSettles ==
  /\ getNotesAPI(base) = "client"
  /\ round.phase = "idle"
  /\ tasks = <<>>
  /\ \E c \in pending, net \in NetOutcomes :
       \E e \in ClientEnvs(c, net) :
          LET r == client(c, net, e)
              renumbered(d) == IF d.n > c.n THEN [d EXCEPT !.n = @ - 1] ELSE d
              overtaken(d) == IF c.op = "list" /\ r.res.kind = "list" /\ d.n < c.n
                              THEN [d EXCEPT !.late = TRUE] ELSE d
          IN  /\ e.t[1] <= e.t[2]
              /\ storage' = r.st
              /\ clock' = e.t[2]
              /\ pending' = {renumbered(overtaken(d)) : d \in pending \ {c}}
              /\ tasks' = << IF c.op = "list"
                             THEN RefreshTask(c.query[1], r.res, storage, e, c.late, c.made)
                             ELSE MutationTask(c.op, r.res) >>
  /\ draining' = TRUE
  /\ UNCHANGED <<nops, last, base>>
  /\ UNCHANGED <<_notes, _query, listeners, handles, nsubs, round>>

(* A continuation that runs as soon as it is queued, inside whatever runs. *)
Returned_always == TRUE

(* The continuation of an await runs when the code that is running has     *)
(* returned: never inside emit().                                          *)
Returned == round.phase = "idle"

(* After `await this.api.<mutation>`: a rejection ends the method, else    *)
(* this.refresh() is called.                                               *)
MutationResumes ==
  /\ Returned
  /\ tasks # <<>>
  /\ Head(tasks).k = "mutation"
  /\ IF Head(tasks).ok
     THEN CallRefresh(_query, Tail(tasks), Head(tasks).made)
     ELSE /\ tasks' = Tail(tasks)
          /\ UNCHANGED <<storage, clock, pending>>
  /\ draining' = (tasks' # <<>>)
  /\ UNCHANGED <<nops, last, base>>
  /\ UNCHANGED <<_notes, _query, listeners, handles, nsubs, round>>

(* The assignment that drops a response when a list call issued later has  *)
(* resolved already.                                                       *)
assigned_unlessLate(t, cache) == IF t.late THEN cache ELSE t.listed

(* this._notes = await this.api.list(...): whatever the call resolved to.  *)
assigned(t, cache) == t.listed

(* After `await this.api.list`: this._notes = ...; this.emit() begins.  A  *)
(* rejected list call ends refresh() there.                                *)
RefreshResumes ==
  /\ Returned
  /\ tasks # <<>>
  /\ Head(tasks).k = "refresh"
  /\ tasks' = Tail(tasks)
  /\ IF Head(tasks).ok
     THEN /\ _notes' = assigned(Head(tasks), _notes)
          /\ round' = [phase |-> "emitting", arr |-> listeners, i |-> 0, aliased |-> TRUE,
                       start |-> listeners, log |-> <<>>, grew |-> FALSE,
                       q |-> Head(tasks).q, listed |-> Head(tasks).listed,
                       pre |-> Head(tasks).pre, e |-> Head(tasks).e,
                       late |-> Head(tasks).late, made |-> Head(tasks).made,
                       nested |-> <<>>, gone |-> {}]
          /\ draining' = TRUE
     ELSE /\ draining' = (tasks' # <<>>)
          /\ UNCHANGED <<_notes, round>>
  /\ UNCHANGED <<_query, listeners, handles, nsubs>>
  /\ UNCHANGED apiVars

(* The iteration taken from the end of the array.                          *)
nextListener_reversed(r) == r.arr[Len(r.arr) - r.i]

(* for (const l of this.listeners) l(): the next element of the array.     *)
nextListener(r) == r.arr[r.i + 1]

EmitInvoke ==
  /\ round.phase = "emitting"
  /\ round.i < Len(round.arr)
  /\ round' = [round EXCEPT !.i = @ + 1, !.log = Append(@, nextListener(round))]
  /\ UNCHANGED <<_notes, _query, listeners, handles, nsubs, tasks, draining>>
  /\ UNCHANGED apiVars

(* The loop ends: emit() and refresh() are about to return.                *)
EmitDone ==
  /\ round.phase = "emitting"
  /\ round.i >= Len(round.arr)
  /\ round' = [round EXCEPT !.phase = "done"]
  /\ UNCHANGED <<_notes, _query, listeners, handles, nsubs, tasks, draining>>
  /\ UNCHANGED apiVars

(* refresh() returns; `round` records a refresh only while it runs.        *)
RefreshReturns ==
  /\ round.phase = "done"
  /\ round' = NoRound
  /\ draining' = (tasks # <<>>)
  /\ UNCHANGED <<_notes, _query, listeners, handles, nsubs, tasks>>
  /\ UNCHANGED apiVars

StoreNext ==
  \/ StoreSubscribe \/ StoreUnsubscribe
  \/ StoreRefresh \/ StoreSetQuery
  \/ StoreCreate \/ StoreUpdate \/ StoreRemove
  \/ MutationResumes \/ RefreshResumes
  \/ EmitInvoke \/ EmitDone \/ RefreshReturns

(* The store over the Local Store (no base address configured).            *)
SpecStore == InitMock /\ [][StoreNext]_vars

(* The store over the Remote Client.                                       *)
StoreClientNext ==
  \/ StoreNext
  \/ StoreFetchSettles

(* Listeners that call the store back during a notification round.         *)
NestedNext ==
  \/ StoreSubscribe
  \/ StoreRefresh
  \/ ListenerRefresh \/ ListenerSetQuery
  \/ RefreshResumes
  \/ EmitInvoke \/ EmitDone \/ RefreshReturns

SpecNested == InitMock /\ [][NestedNext]_vars

(* Listeners that come and go while refreshes notify them.                 *)
SubscriptionsNext ==
  \/ StoreSubscribe \/ StoreUnsubscribe
  \/ StoreRefresh
  \/ RefreshResumes
  \/ EmitInvoke \/ EmitDone \/ RefreshReturns

SpecSubscriptions == InitMock /\ [][SubscriptionsNext]_vars

(* Refreshes through the Remote Client that overlap.                       *)
OverlapNext ==
  \/ StoreSubscribe
  \/ StoreRefresh \/ StoreSetQuery
  \/ StoreFetchSettles
  \/ RefreshResumes
  \/ EmitInvoke \/ EmitDone \/ RefreshReturns

SpecOverlap == InitClient /\ [][OverlapNext]_vars

SpecStoreClient == InitClient /\ [][StoreClientNext]_vars

(* --------------- the Local Store's mutations, step by step ------------- *)
(* create, update and remove in two steps, the read of the collection and  *)
(* the write of the changed collection, with calls issued while others are *)
(* in flight (directly, or by the Remote Client when its fetch has         *)
(* failed).  A call in flight waits for its fetch (phase "fetch") or has   *)
(* read the collection and not written yet (phase "read").                 *)
mockAt(st, c, e) ==
  CASE c.op = "list"   -> mock_list(st, c.query, e)
    [] c.op = "get"    -> mock_get(st, c.id, e)
    [] c.op = "create" -> mock_create(st, c.input, e)
    [] c.op = "update" -> mock_update(st, c.id, c.input, e)
    [] c.op = "remove" -> mock_remove(st, c.id, e)

Mutations ==
  {Call("create", "", input, <<>>) : input \in StoreCreateInputs}
    \cup {Call("update", id, input, <<>>) : id \in StoreNoteIDs, input \in StoreUpdateInputs}
    \cup {Call("remove", id, NoInput, <<>>) : id \in StoreNoteIDs \cap UidPool}

InFlight(c, n, phase, net, seen, e) ==
  [op |-> c.op, id |-> c.id, input |-> c.input, query |-> c.query,
   n |-> n, phase |-> phase, net |-> net, seen |-> seen, e |-> e]

(* A method that could be suspended between its read and its write.        *)
RunToCompletion_suspended == TRUE

(* The mock's methods have no await between read() and write(): nothing    *)
(* else runs while a call is between the two.                              *)
RunToCompletion == \A c \in pending : c.phase # "read"

(* read(): the call c (numbered n) has the collection; storage that held   *)
(* none has been seeded.                                                   *)
ReadStep(c, n, net, e) ==
  LET seen == IF storage.kind = "array" THEN storage ELSE write(mockAt(storage, c, e).all)
  IN  /\ e.t[1] <= e.t[2]
      /\ storage' = seen
      /\ clock' = e.t[2]
      /\ pending' = {d \in pending : d.n # n} \cup {InFlight(c, n, "read", net, seen, e)}

(* A mutation is called.  On the Local Store the method runs at once, up   *)
(* to its read; through the Remote Client the fetch is awaited first.      *)
MutationCalled ==
  /\ RunToCompletion
  /\ nops < MaxOps
  /\ nops' = nops + 1
  /\ \E c \in Mutations :
       IF getNotesAPI(base) = "mock"
       THEN \E e \in Envs(storage, c.op) : ReadStep(c, nops + 1, NoNet, e)
       ELSE /\ pending' = pending \cup {InFlight(c, nops + 1, "fetch", NoNet, NoStorage, NoEnv)}
            /\ UNCHANGED <<storage, clock>>
  /\ UNCHANGED <<last, base>>
  /\ UNCHANGED storeVars

(* The fetch of a call settles: on a failure the mock's method starts and  *)
(* reads, otherwise the call is over and the Local Store is not involved.  *)
MutationFetchSettles ==
  /\ RunToCompletion
  /\ \E c \in pending, net \in NetOutcomes :
       /\ c.phase = "fetch"
       /\ IF safeFetch(net) = NullResponse
          THEN \E e \in Envs(storage, c.op) : ReadStep(c, c.n, net, e)
          ELSE /\ pending' = pending \ {c}
               /\ UNCHANGED <<storage, clock>>
  /\ UNCHANGED <<nops, last, base>>
  /\ UNCHANGED storeVars

(* write(all): the collection the call has read, with its change.          *)
MutationWrites ==
  /\ \E c \in pending :
       /\ c.phase = "read"
       /\ LET r == mockAt(c.seen, c, c.e)
          IN  /\ storage' = r.st
              /\ last' = Event(getNotesAPI(base), c.op, c.id, c.input, c.query, c.net, c.e, r)
       /\ pending' = pending \ {c}
  /\ UNCHANGED <<clock, nops, base>>
  /\ UNCHANGED storeVars

MutationsNext ==
  \/ MutationCalled
  \/ MutationFetchSettles
  \/ MutationWrites

SpecMutations == Init /\ [][MutationsNext]_vars

(* ======================= properties of the data layer ================== *)
(* The collection a storage value holds: none unless it is a JSON array.   *)
Persisted(st) == IF st.kind = "array" THEN JSON_parse(st.text) ELSE <<>>

Ids(notes) == {notes[i].id : i \in 1..Len(notes)}

Range(seq) == {seq[i] : i \in 1..Len(seq)}

Count(seq, x) == Cardinality({i \in 1..Len(seq) : seq[i] = x})

ByMock(op) == last.layer = "mock" /\ last.op = op

(* A network call fails: fetch rejects, or the status is not 2xx.          *)
NetFails(net) ==
  net.kind = "reject" \/ (net.kind = "response" /\ (net.status < 200 \/ net.status > 299))

(* The same call made directly on the Local Store, in the same storage     *)
(* state and environment.                                                  *)
DirectCall(ev) ==
  CASE ev.op = "list"   -> mock_list(ev.pre, ev.query, ev.e)
    [] ev.op = "get"    -> mock_get(ev.pre, ev.id, ev.e)
    [] ev.op = "create" -> mock_create(ev.pre, ev.input, ev.e)
    [] ev.op = "update" -> mock_update(ev.pre, ev.id, ev.input, ev.e)
    [] ev.op = "remove" -> mock_remove(ev.pre, ev.id, ev.e)

(* C1: a Remote Client call whose network call fails (rejection or non-2xx *)
(* status) returns what the same call on the Local Store returns and       *)
(* leaves the storage that call leaves.                                    *)
C1_FallbackTransparency ==
  (last.layer = "client" /\ NetFails(last.net)) =>
     /\ last.res = DirectCall(last).res
     /\ storage = DirectCall(last).st

C1_Witness ==
  /\ last.layer = "client" /\ last.op = "update"
  /\ last.net.kind = "response" /\ last.net.status = 500
  /\ last.res.kind = "note"
  /\ storage # last.pre

(* C2: when the service answers get(id) with status 404, the Remote        *)
(* Client's get returns null and does not touch the Local Store.           *)
C2_Get404IsAbsent ==
  (last.layer = "client" /\ last.op = "get"
     /\ last.net.kind = "response" /\ last.net.status = 404) =>
     /\ last.res.kind = "null"
     /\ storage = last.pre

(* C3 as claimed: update of an id that no persisted note has fails with    *)
(* NotFound and leaves storage exactly as it was, whatever storage held.   *)
C3_UpdateMissingIdLeavesStorage ==
  (ByMock("update") /\ last.id \notin Ids(Persisted(last.pre))) =>
     /\ last.res.kind = "NotFound"
     /\ storage = last.pre

IsDemoSeed(notes) ==
  /\ Len(notes) = 2
  /\ notes[1].title = WelcomeTitle /\ notes[1].content = WelcomeContent
  /\ notes[1].tags = WelcomeTags
  /\ notes[2].title = KeyboardTitle /\ notes[2].content = KeyboardContent
  /\ notes[2].tags = KeyboardTags
  /\ notes[1].createdAt = notes[1].updatedAt
  /\ notes[2].createdAt = notes[2].updatedAt
  /\ notes[1].createdAt = notes[2].createdAt

(* C3: update of an id that no note of the collection the call reads has   *)
(* fails with NotFound; storage that held a collection is left exactly as  *)
(* it was, storage that held none holds the two demonstration notes.       *)
C3_UpdateNotFound ==
  (ByMock("update") /\ last.id \notin Ids(last.all)) =>
     /\ last.res.kind = "NotFound"
     /\ last.pre.kind = "array" => (storage = last.pre /\ last.all = Persisted(last.pre))
     /\ last.pre.kind # "array" => (IsDemoSeed(last.all) /\ storage = write(last.all))

C3_Witness ==
  /\ ByMock("update") /\ last.res.kind = "NotFound"
  /\ last.pre.kind = "array" /\ Len(Persisted(last.pre)) >= 2
  /\ last.id = "nonexistent-id"

(* C4: remove never fails; removing an id the collection does not hold     *)
(* leaves storage unchanged; a second remove(id) changes nothing more.     *)
C4_RemoveIdempotent ==
  ByMock("remove") =>
     /\ last.res.kind = "void"
     /\ (last.pre.kind = "array" /\ last.id \notin Ids(Persisted(last.pre)))
          => storage = last.pre
     /\ last.id \notin Ids(Persisted(storage))
     /\ \A e \in Envs(storage, "remove") :
          /\ mock_remove(storage, last.id, e).res.kind = "void"
          /\ mock_remove(storage, last.id, e).st = storage

C4_Witness ==
  /\ ByMock("remove")
  /\ last.id \in Ids(last.all)
  /\ Len(Persisted(storage)) = 1

(* The note get returns for the id create has just returned.               *)
GetAfterCreate(e) == mock_get(storage, last.res.val[1].id, e).res

(* C5 as claimed: create then get gives back title, content and tags as    *)
(* they were put in, for every input.                                      *)
C5_RoundTripIdentical ==
  ByMock("create") =>
     \A e \in Envs(storage, "get") :
        /\ GetAfterCreate(e).kind = "note"
        /\ GetAfterCreate(e).val[1].title = last.input.title[1]
        /\ GetAfterCreate(e).val[1].content = last.input.content[1]
        /\ GetAfterCreate(e).val[1].tags = last.input.tags[1]
        /\ GetAfterCreate(e).val[1].createdAt = GetAfterCreate(e).val[1].updatedAt

(* C5: create then get of the returned id gives the note create returned:  *)
(* content and tags as put in, the title as put in unless it was empty and *)
(* then "Untitled", and createdAt = updatedAt.                             *)
C5_RoundTrip ==
  ByMock("create") =>
     \A e \in Envs(storage, "get") :
        /\ GetAfterCreate(e) = last.res
        /\ GetAfterCreate(e).kind = "note"
        /\ GetAfterCreate(e).val[1].title =
             (IF last.input.title[1] = <<>> THEN Untitled ELSE last.input.title[1])
        /\ GetAfterCreate(e).val[1].content = last.input.content[1]
        /\ GetAfterCreate(e).val[1].tags = last.input.tags[1]
        /\ GetAfterCreate(e).val[1].createdAt = GetAfterCreate(e).val[1].updatedAt

C5_Witness ==
  /\ ByMock("create")
  /\ last.input.title[1] = <<>>
  /\ last.res.val[1].title = Untitled
  /\ last.res.val[1].id \in Ids(last.all)

(* The stored note an update has just written.                             *)
Updated == Persisted(storage)[findIndex(last.all, last.id)]

UpdateDone == ByMock("update") /\ last.res.kind = "note"

(* C6 as claimed: after a successful update the note's updatedAt is        *)
(* strictly greater than its createdAt.                                    *)
C6_UpdatedAtStrictlyLater ==
  UpdateDone => (Updated.updatedAt > Updated.createdAt /\ last.res.val[1] = Updated)

(* C6: after a successful update the note's updatedAt is the clock reading *)
(* taken by the update, which is not earlier than its createdAt.           *)
C6_UpdatedAtRefreshed ==
  UpdateDone =>
     /\ last.res.val[1] = Updated
     /\ Updated.updatedAt = last.e.t[2]
     /\ Updated.updatedAt >= Updated.createdAt

C6_Witness ==
  /\ UpdateDone
  /\ last.pre.kind = "array"
  /\ Updated.updatedAt = Updated.createdAt

(* C7: a successful update changes only the supplied fields and updatedAt  *)
(* of the note with that id; its other fields, its place and every other   *)
(* note stay as they were.                                                 *)
C7_UpdateFrame ==
  UpdateDone =>
     LET idx == findIndex(last.all, last.id)
         old == last.all[idx]
         now == Persisted(storage)
     IN  /\ last.pre.kind = "array" => last.all = Persisted(last.pre)
         /\ Len(now) = Len(last.all)
         /\ \A j \in 1..Len(now) : j # idx => now[j] = last.all[j]
         /\ now[idx].id = old.id /\ now[idx].createdAt = old.createdAt
         /\ now[idx].title = (IF last.input.title = <<>> THEN old.title ELSE last.input.title[1])
         /\ now[idx].content =
              (IF last.input.content = <<>> THEN old.content ELSE last.input.content[1])
         /\ now[idx].tags = (IF last.input.tags = <<>> THEN old.tags ELSE last.input.tags[1])
         /\ last.res.val[1] = now[idx]

C7_Witness ==
  /\ UpdateDone
  /\ last.input.title = <<>> /\ last.input.content # <<>>
  /\ Len(last.all) >= 2
  /\ Updated.title = WelcomeTitle

(* s contains q as a substring when letter case is ignored.                *)
ContainsIgnoringCase(s, q) ==
  \E i \in 0..(Len(s) - Len(q)) :
     \A k \in 1..Len(q) : toLowerCaseChar(s[i + k]) = toLowerCaseChar(q[k])

Wanted(n, query) ==
  \/ query = <<>>
  \/ query[1] = <<>>
  \/ ContainsIgnoringCase(n.title, query[1])
  \/ ContainsIgnoringCase(n.content, query[1])
  \/ \E t \in Range(n.tags) : ContainsIgnoringCase(t, query[1])

(* C8: list(query) returns exactly the persisted notes that match (all of  *)
(* them without a query), latest updatedAt first.                          *)
C8_ListMatchesSorted ==
  ByMock("list") =>
     LET P == Persisted(storage)
         R == last.res.val
     IN  /\ last.res.kind = "list"
         /\ \A i \in 1..(Len(R) - 1) : R[i].updatedAt >= R[i + 1].updatedAt
         /\ \A n \in Range(P) \cup Range(R) :
              Count(R, n) = (IF Wanted(n, last.query) THEN Count(P, n) ELSE 0)

C8_Witness ==
  /\ ByMock("list")
  /\ last.query = <<StrTIPS>>
  /\ Len(last.res.val) = 2
  /\ Len(Persisted(storage)) = 3
  /\ Persisted(storage)[1].updatedAt < Persisted(storage)[2].updatedAt

(* C9: list() on storage that holds no collection (missing, unparseable,   *)
(* not an array) returns exactly the two demonstration notes and leaves    *)
(* them stored as a valid collection; it does not fail.                    *)
C9_ReseedOnCorruption ==
  (ByMock("list") /\ last.pre.kind # "array" /\ falsyQuery(last.query)) =>
     /\ last.res.kind = "list"
     /\ IsDemoSeed(last.res.val)
     /\ storage.kind = "array"
     /\ JSON_parse(storage.text) = last.res.val

C9_Witness ==
  /\ ByMock("list") /\ last.pre.kind = "malformed" /\ last.query = <<>>
  /\ Len(last.res.val) = 2

(* ========================= properties of the store ===================== *)
(* C10: a refresh that completes has replaced the cache with the result of *)
(* list(query as it was when refresh was called) and has then invoked the  *)
(* listeners registered at that moment, each once, in registration order   *)
(* (a listener subscribed during the round to the array being iterated is  *)
(* invoked after them).                                                    *)
C10_RefreshNotifiesInOrder ==
  round.phase = "done" =>
     /\ _notes = round.listed
     /\ round.listed = mock_list(round.pre, <<round.q>>, round.e).res.val
     /\ Len(round.log) >= Len(round.start)
     /\ SubSeq(round.log, 1, Len(round.start)) = round.start
     /\ ~round.grew => round.log = round.start
     /\ \A i, j \in 1..Len(round.log) : i # j => round.log[i] # round.log[j]

C10_Witness ==
  /\ round.phase = "done"
  /\ round.start = <<1, 2>>
  /\ round.log = <<1, 2>>
  /\ round.q = StrTIPS
  /\ Len(_notes) = 1

(* C11: every create, update or remove through the store is followed by a  *)
(* refresh: when the method resumes after the backend call it calls list,  *)
(* also when the backend call has failed.                                  *)
C11_MutationAlwaysRefreshes ==
  [][MutationResumes => (tasks' # <<>> /\ tasks'[Len(tasks')].k = "refresh")]_vars

(* C12: whenever a store operation has completed and none is in flight,    *)
(* the cache is what list(query) gives for the persisted collection.       *)
C12_CacheReflectsPersisted ==
  (nops >= 1 /\ tasks = <<>> /\ round.phase = "idle") =>
     \A e \in Envs(storage, "list") :
        _notes = mock_list(storage, <<_query>>, e).res.val

(* ================== properties of the data layer, continued ============ *)
(* C13: through the Remote Client no call raises an error, whatever the    *)
(* network does, except update of an id that no note has (NotFound).       *)
C13_NoFaultSurfaces ==
  last.layer = "client" =>
     /\ last.res.kind # "SyntaxError"
     /\ last.res.kind = "NotFound" => (last.op = "update" /\ last.id \notin Ids(last.all))

(* list() with no query returns no note at all.                            *)
ListsNothing(st) ==
  \A e \in Envs(st, "list") : mock_list(st, <<>>, e).res.val = <<>>

(* C16 as claimed: in every reachable state list() with no query returns   *)
(* at least one note.                                                      *)
C16_NeverEmpty == ~ListsNothing(storage)

(* C16: list() with no query returns at least one note until a remove has  *)
(* deleted the last notes of the collection; the emptied collection is not *)
(* seeded again: it stays empty until a create (or until the entry is      *)
(* cleared or damaged from outside).                                       *)
C16_EmptiedOnlyByRemove ==
  [][ /\ (ListsNothing(storage') /\ ~ListsNothing(storage)) =>
           (last'.op = "remove" /\ last'.id \in Ids(last'.all))
      /\ (ListsNothing(storage) /\ last'.op \in {"list", "get", "update", "remove"}) =>
           ListsNothing(storage') ]_vars

C16_Witness ==
  /\ ByMock("remove")
  /\ last.pre.kind = "array"
  /\ Len(Persisted(last.pre)) = 1
  /\ last.id \in Ids(last.all)
  /\ ListsNothing(storage)

(* C17: no two notes of the persisted collection have the same id.         *)
C17_IdsUnique ==
  \A i, j \in 1..Len(Persisted(storage)) :
     i # j => Persisted(storage)[i].id # Persisted(storage)[j].id

(* ===================== properties of the store, continued ============== *)
(* C14: overlapping refreshes through the Remote Client both complete; the *)
(* cache after a list call has resolved is the response of that call, also *)
(* when a list call issued later has resolved before it, and the listeners *)
(* registered then are all notified.                                       *)
C14_LastResolvedWins ==
  /\ round.phase \in {"emitting", "done"} => _notes = round.listed
  /\ round.phase = "done" => Range(round.start) \subseteq Range(round.log)

C14_Witness ==
  /\ round.phase = "done"
  /\ round.late
  /\ pending = {} /\ tasks = <<>>
  /\ round.q = StrTIPS /\ _query = StrEmpty
  /\ Len(_notes) = 1
  /\ round.log = <<1>>

(* C18 as claimed: when a listener has called refresh() during a round,    *)
(* the nested refresh has replaced the cache and notified (it is no longer *)
(* waiting) before the next listener of the round is invoked.              *)
C18_NestedRefreshRecurses ==
  [][(round.phase = "emitting" /\ round.nested # <<>> /\ round'.i = round.i + 1)
       => tasks = <<>>]_vars

(* C18: a refresh that a listener calls during a round makes its list call *)
(* at once but resumes only after the round: until the last listener of    *)
(* the round has been invoked the cache is not replaced, no other round    *)
(* begins and no waiting refresh resumes.                                  *)
C18_NestedRefreshDeferred ==
  [][round.phase = "emitting" =>
        /\ _notes' = _notes
        /\ round'.phase \in {"emitting", "done"}
        /\ round'.listed = round.listed /\ round'.start = round.start
        /\ Len(tasks') >= Len(tasks)]_vars

C18_Witness ==
  /\ round.phase = "done"
  /\ round.nested = <<1>>
  /\ round.log = <<1, 2>>
  /\ Len(tasks) = 1 /\ tasks[1].q = StrTIPS /\ Len(tasks[1].listed) = 1
  /\ _notes = round.listed /\ Len(_notes) = 2

(* C19: when store.create(input) has completed with an empty query, as the *)
(* only store operation, the cache contains the note create returned.      *)
C19_ReadYourWrites ==
  (round.phase = "done" /\ round.made # <<>> /\ round.q = StrEmpty
     /\ nops = 1 /\ pending = {} /\ tasks = <<>>) =>
     \E i \in 1..Len(_notes) : _notes[i] = round.made[1]

(* C20 as claimed: a listener whose handle has been called is never        *)
(* invoked again.                                                          *)
C20_UnsubscribedNeverInvoked ==
  [][(round.phase = "emitting" /\ round'.i = round.i + 1)
       => nextListener(round) \in handles]_vars

(* C20: a listener whose handle has been called is not invoked by any      *)
(* round that starts afterwards (that of a refresh in flight included); a  *)
(* listener that emit() invokes is still subscribed or was unsubscribed    *)
(* during this very round.                                                 *)
C20_UnsubscribedLeavesNextRound ==
  [][(round.phase = "emitting" /\ round'.i = round.i + 1)
       => \/ nextListener(round) \in handles
          \/ \E g \in round.gone : g.fn = nextListener(round)]_vars

C20_Witness ==
  /\ round.phase = "done"
  /\ round.log = <<1, 2>>
  /\ [fn |-> 2, invoked |-> FALSE] \in round.gone
  /\ listeners = <<1>>

(* C15: a Local Store create, update or remove writes the collection as    *)
(* storage holds it at the moment of the write, with its own change and    *)
(* nothing else: no other operation has run since it read, so no update is *)
(* lost and the collection is that of the mutations applied one by one in  *)
(* the order of their writes.                                              *)
C15_NoLostUpdate ==
  last.op \in {"create", "update", "remove"} =>
     LET P   == Persisted(last.pre)
         now == Persisted(storage)
         idx == findIndex(P, last.id)
         keep(n) == n.id # last.id
     IN  /\ last.pre.kind = "array"
         /\ last.all = P
         /\ storage.kind = "array"
         /\ last.op = "create" => now = <<last.res.val[1]>> \o P
         /\ last.op = "remove" => now = SelectSeq(P, keep)
         /\ (last.op = "update" /\ last.res.kind = "NotFound") => (idx = 0 /\ now = P)
         /\ (last.op = "update" /\ last.res.kind # "NotFound") =>
              /\ idx > 0
              /\ Len(now) = Len(P)
              /\ now[idx] = last.res.val[1]
              /\ \A j \in 1..Len(P) : j # idx => now[j] = P[j]

C15_Witness ==
  /\ last.op = "create" /\ last.layer = "client" /\ NetFails(last.net)
  /\ Len(Persisted(last.pre)) = 2
  /\ last.e.u[1] \notin Ids(Persisted(last.pre))
  /\ Len(Persisted(storage)) = 3
  /\ \E d \in pending : d.phase = "fetch" /\ d.n > 1

====
